---- MODULE Spec2Model ----
(***************************************************************************)
(* Tennis match simulator and fantasy scoring of sfdusty/sports-simulator  *)
(* (src/test/simulators/tennissimulator.py).                               *)
(*                                                                         *)
(* Rates are percentages held as integers 0..100; fantasy points are held  *)
(* in hundredths of a point.  np.random.rand() is an outcome u/2 with u in *)
(* Outcomes; the random stream is either free (rand_tape = <<>>) or a      *)
(* cyclic tape fixed at the start of a run.                                *)
(***************************************************************************)
EXTENDS Integers, Sequences, FiniteSets, TLC

VARIABLES
    \* inputs of simulate_match / simulate_set
    best_of, player1_stats, player2_stats,
    \* the random stream behind np.random.rand()
    rand_tape, rand_pos,
    \* control state: "game", "tiebreak", "set_return", "done", "score"
    pc,
    \* locals of simulate_match
    player1_sets, player2_sets, set_num, server_id, sets,
    player1_fantasy_counts, player2_fantasy_counts,
    fantasy_stats, result,
    \* locals of simulate_set
    set_server_id, player1_games, player2_games, games, clean_set,
    set_aces, set_double_faults, set_result,
    \* locals of simulate_tie_break
    player1_points, player2_points, points_played,
    \* history: who served each regular game / tie-break point of the current
    \* set, the last game played, and what each player served in the match
    game_servers, point_servers, last_game, served_aces, served_double_faults,
    \* history: the regular games each player was credited with while the
    \* other player served
    games_won_returning,
    \* calculate_fantasy_points called on its own
    fp_stats, fp_match_won, fp_best_of, fp_points, fp_calls,
    \* PlayerStats(**values): the values passed, and how construction ended
    ps_values, ps_status, ps_error,
    \* run_match_simulation: the statistics table, the request, the outcome
    player_data, request, rms,
    \* generate_simulations: the roster, the configuration, the rows produced
    \* so far, the bucket counts, how the call ended, and the draws of each trial
    df, config, simulation_results, alignment_counts, gen_status, trial_log,
    \* run_simulation_slate and summarize_simulation_results
    game_metadata, num_simulations, slate, slate_status, summary,
    \* Team.simulate_scores called on its own: the team's implied total, the
    \* variability passed, the scores stored on the team, how the call ended
    implied_total, variability, simulated_scores, team_status,
    \* history: the number of calls of simulate_match made so far on the same
    \* PlayerStats objects
    match_calls

matchvars == <<player1_sets, player2_sets, set_num, server_id, sets,
               player1_fantasy_counts, player2_fantasy_counts, fantasy_stats, result>>
setvars == <<set_server_id, player1_games, player2_games, games, clean_set,
             set_aces, set_double_faults, set_result>>
tbvars == <<player1_points, player2_points, points_played>>
histvars == <<game_servers, point_servers, last_game, served_aces, served_double_faults,
              games_won_returning>>
fpvars == <<fp_stats, fp_match_won, fp_best_of, fp_points, fp_calls>>
inputvars == <<best_of, player1_stats, player2_stats, rand_tape>>
ctorvars == <<ps_values, ps_status, ps_error>>
lookupvars == <<player_data, request, rms>>
genvars == <<df, config, simulation_results, alignment_counts, gen_status, trial_log>>
slatevars == <<game_metadata, num_simulations, slate, slate_status, summary>>
teamvars == <<implied_total, variability, simulated_scores, team_status>>
seriesvars == <<match_calls>>
auxvars == <<ctorvars, lookupvars, genvars, slatevars, teamvars, seriesvars>>
vars == <<inputvars, rand_pos, pc, matchvars, setvars, tbvars, histvars, fpvars, auxvars>>

----------------------------------------------------------------------------
(* Bounds of the model *)

\* points after which an undecided tie-break is no longer followed
MaxTieBreakPoints == 16
\* length of the cyclic random tape of a whole-match run
TapeLen == 9
\* calls of calculate_fantasy_points on one record
MaxScoreCalls == 2
\* rows of the statistics table
MaxRows == 2
\* trials requested of generate_simulations and run_simulation_slate
MaxTrials == 2
\* calls of simulate_match on the same PlayerStats objects
MaxMatches == 2

(* Program constants *)
serves == 8
GamesForSet == 6
PointsForTieBreak == 7

\* np.random.rand() in [0,1): outcome u stands for u/2
Outcomes == {0, 1}

----------------------------------------------------------------------------
(* PlayerStats: the rate fields the simulator reads *)

Stats(fsw, sgw, rpw, gw, ace, dfp) ==
    [FirstServeWonPercentage |-> fsw, ServiceGamesWonPercentage |-> sgw,
     ReturnPointsWonPercentage |-> rpw, GamesWonPercentage |-> gw,
     AcePercentage |-> ace, DoubleFaultPercentage |-> dfp]

EvenPlayer == Stats(50, 50, 50, 50, 0, 0)
BigServer == Stats(100, 100, 0, 50, 100, 0)
WeakServer == Stats(0, 50, 50, 50, 0, 100)
Profiles == {EvenPlayer, BigServer, WeakServer}

Other(id) == IF id = 1 THEN 2 ELSE 1
Label(id) == IF id = 1 THEN "player1" ELSE "player2"
count(seq, x) == Cardinality({i \in DOMAIN seq : seq[i] = x})

----------------------------------------------------------------------------
(* simulate_game *)

server_effect(server_stats) ==
    server_stats.FirstServeWonPercentage * server_stats.ServiceGamesWonPercentage

returner_effect(returner_stats) ==
    returner_stats.ReturnPointsWonPercentage * returner_stats.GamesWonPercentage

\* outcome < server_win_prob, with outcome = u/2
OutcomeBelowServerProb(se, re, u) ==
    IF se + re = 0 THEN u < 1 ELSE u * (se + re) < 2 * se

\* the values np.random.binomial(n, pct/100) can return
binomial(n, pct) ==
    IF pct = 0 THEN {0} ELSE IF pct = 100 THEN {n} ELSE 0..n

simulate_game(server_stats, returner_stats, u, aces, double_faults) ==
    [winner |-> IF OutcomeBelowServerProb(server_effect(server_stats),
                                          returner_effect(returner_stats), u)
                THEN "player1" ELSE "player2",
     aces |-> aces,
     double_faults |-> double_faults]

\* the next value of the random stream
RandDraws ==
    IF rand_tape = << >> THEN Outcomes ELSE {rand_tape[rand_pos + 1]}
RandAdvance ==
    IF rand_tape = << >> THEN rand_pos ELSE (rand_pos + 1) % Len(rand_tape)

----------------------------------------------------------------------------
(* calculate_fantasy_points, in hundredths of a point *)

\* lines 225-229
BasePoints(stats) ==
    (IF stats.MatchPlayed THEN 3000 ELSE 0)
    + (IF stats.AdvancedByWalkover THEN 3000 ELSE 0)

\* lines 232-236
MatchOutcomePoints(match_won, bo) ==
    IF match_won
    THEN (IF bo = 3 THEN 600 ELSE IF bo = 5 THEN 500 ELSE 0)
    ELSE 0

\* lines 239-246
GamePoints(stats, bo) ==
    IF bo = 3 THEN stats.GamesWon * 250 - stats.GamesLost * 200
    ELSE IF bo = 5 THEN stats.GamesWon * 200 - stats.GamesLost * 160
    ELSE 0

\* lines 249-256
SetPoints(stats, bo) ==
    IF bo = 3 THEN stats.SetsWon * 600 - stats.SetsLost * 300
    ELSE IF bo = 5 THEN stats.SetsWon * 500 - stats.SetsLost * 250
    ELSE 0

AcePoints_SameForBoth(stats, bo) ==
    IF bo = 3 \/ bo = 5 THEN stats.Aces * 25 ELSE 0

\* lines 259-263
AcePoints(stats, bo) ==
    IF bo = 3 THEN stats.Aces * 40
    ELSE IF bo = 5 THEN stats.Aces * 25
    ELSE 0

\* lines 266-267
DoubleFaultPoints(stats) == stats.DoubleFaults * 100

\* lines 270-274
BreakPoints(stats, bo) ==
    IF bo = 3 THEN stats.Breaks * 75
    ELSE IF bo = 5 THEN stats.Breaks * 50
    ELSE 0

\* lines 277-299
BonusPoints(stats, bo) ==
    (IF stats.CleanSet
     THEN (IF bo = 3 THEN 400 ELSE IF bo = 5 THEN 250 ELSE 0)
     ELSE 0)
    + (IF stats.StraightSets
       THEN (IF bo = 3 THEN 600 ELSE IF bo = 5 THEN 500 ELSE 0)
       ELSE 0)
    + (IF stats.NoDoubleFault
       THEN (IF bo = 3 THEN 250 ELSE IF bo = 5 THEN 500 ELSE 0)
       ELSE 0)
    + (IF stats.TenPlusAces THEN 200 ELSE 0)
    + (IF stats.FifteenPlusAces THEN 200 ELSE 0)

calculate_fantasy_points(stats, match_won, bo) ==
    BasePoints(stats) + MatchOutcomePoints(match_won, bo) + GamePoints(stats, bo)
    + SetPoints(stats, bo) + AcePoints(stats, bo) - DoubleFaultPoints(stats)
    + BreakPoints(stats, bo) + BonusPoints(stats, bo)

----------------------------------------------------------------------------
(* simulate_set and simulate_tie_break *)

abs(x) == IF x < 0 THEN -x ELSE x

SetIsWon_AnyLead(p1g, p2g) ==
    (p1g >= GamesForSet \/ p2g >= GamesForSet) /\ abs(p1g - p2g) >= 1

\* line 407: the set is won
SetIsWon(p1g, p2g) ==
    (p1g >= GamesForSet \/ p2g >= GamesForSet) /\ abs(p1g - p2g) >= 2

\* line 419: a tie-break is played
TieBreakDue_Never(p1g, p2g) == FALSE

TieBreakDue(p1g, p2g) == p1g = 6 /\ p2g = 6

TieBreakIsWon_AnyLead(p1, p2) ==
    (p1 >= PointsForTieBreak \/ p2 >= PointsForTieBreak) /\ abs(p1 - p2) >= 1

\* line 487: the tie-break is won
TieBreakIsWon(p1, p2) ==
    (p1 >= PointsForTieBreak \/ p2 >= PointsForTieBreak) /\ abs(p1 - p2) >= 2

\* lines 459-463: who serves the point numbered played
tie_break_server(played, first_server) ==
    IF played = 1 THEN first_server
    ELSE IF ((played - 1) \div 2) % 2 = 1 THEN 2 ELSE 1

AlternateServer_Keep(id) == id

\* line 437 (and 691)
AlternateServer(id) == IF id = 1 THEN 2 ELSE 1

\* lines 400-404: the clean-set flag after a game
CleanAfterGame(clean, winner) == IF winner = "player1" THEN clean ELSE FALSE

StatsOf(id) == IF id = 1 THEN player1_stats ELSE player2_stats

NoGame == [server |-> 0, server_effect |-> 0, returner_effect |-> 0, credited |-> 0]

\* the state simulate_set starts from when called with first_server
SetStart(first_server) ==
    /\ set_server_id' = first_server
    /\ player1_games' = 0
    /\ player2_games' = 0
    /\ games' = << >>
    /\ clean_set' = TRUE
    /\ set_aces' = 0
    /\ set_double_faults' = 0
    /\ set_result' = << >>
    /\ player1_points' = 0
    /\ player2_points' = 0
    /\ points_played' = 0
    /\ game_servers' = << >>
    /\ point_servers' = << >>
    /\ last_game' = NoGame

\* one iteration of the loop of simulate_set (lines 385-437)
PlayGame ==
    /\ pc = "game"
    /\ \E u \in RandDraws :
       \E aces \in binomial(serves, StatsOf(set_server_id).AcePercentage) :
       \E double_faults \in binomial(serves, StatsOf(set_server_id).DoubleFaultPercentage) :
          LET server_stats == StatsOf(set_server_id)
              returner_stats == StatsOf(Other(set_server_id))
              game_result == simulate_game(server_stats, returner_stats, u, aces, double_faults)
              winner == game_result.winner
              p1g == player1_games + (IF winner = "player1" THEN 1 ELSE 0)
              p2g == player2_games + (IF winner = "player1" THEN 0 ELSE 1)
              cs == CleanAfterGame(clean_set, winner)
              gs == Append(games, winner)
              sa == set_aces + game_result.aces
              sd == set_double_faults + game_result.double_faults
          IN /\ player1_games' = p1g
             /\ player2_games' = p2g
             /\ clean_set' = cs
             /\ games' = gs
             /\ set_aces' = sa
             /\ set_double_faults' = sd
             /\ game_servers' = Append(game_servers, set_server_id)
             /\ last_game' = [server |-> set_server_id,
                              server_effect |-> server_effect(server_stats),
                              returner_effect |-> returner_effect(returner_stats),
                              credited |-> IF winner = "player1" THEN 1 ELSE 2]
             /\ served_aces' = [served_aces EXCEPT ![set_server_id] = @ + game_result.aces]
             /\ served_double_faults' =
                    [served_double_faults EXCEPT ![set_server_id] = @ + game_result.double_faults]
             /\ games_won_returning' =
                    IF winner = Label(set_server_id)
                    THEN games_won_returning
                    ELSE [games_won_returning EXCEPT ![Other(set_server_id)] = @ + 1]
             /\ IF SetIsWon(p1g, p2g)
                THEN /\ set_result' = << [set_winner |-> IF p1g > p2g THEN "player1" ELSE "player2",
                                          games |-> gs, CleanSet |-> cs,
                                          aces |-> sa, double_faults |-> sd] >>
                     /\ pc' = "set_return"
                     /\ UNCHANGED set_server_id
                ELSE IF TieBreakDue(p1g, p2g)
                THEN /\ pc' = "tiebreak"
                     /\ UNCHANGED <<set_result, set_server_id>>
                ELSE /\ pc' = "game"
                     /\ set_server_id' = AlternateServer(set_server_id)
                     /\ UNCHANGED set_result
    /\ rand_pos' = RandAdvance
    /\ UNCHANGED <<inputvars, matchvars, tbvars, point_servers, fpvars, auxvars>>

\* one iteration of the loop of simulate_tie_break (lines 456-490); on its
\* return, lines 421-434 of simulate_set
TieBreakPoint ==
    /\ pc = "tiebreak"
    /\ points_played < MaxTieBreakPoints
    /\ \E u \in RandDraws :
          LET played == points_played + 1
              current_server == tie_break_server(played, set_server_id)
              server_stats == StatsOf(current_server)
              returner_stats == StatsOf(Other(current_server))
          IN \E aces \in binomial(serves, server_stats.AcePercentage) :
             \E double_faults \in binomial(serves, server_stats.DoubleFaultPercentage) :
             LET point_result == simulate_game(server_stats, returner_stats, u, aces, double_faults)
                 point_winner == point_result.winner
                 p1 == player1_points + (IF point_winner = "player1" THEN 1 ELSE 0)
                 p2 == player2_points + (IF point_winner = "player1" THEN 0 ELSE 1)
                 tie_break_winner == IF p1 > p2 THEN "player1" ELSE "player2"
                 p1g == player1_games + (IF tie_break_winner = "player1" THEN 1 ELSE 0)
                 p2g == player2_games + (IF tie_break_winner = "player1" THEN 0 ELSE 1)
                 gs == Append(games, tie_break_winner)
             IN /\ points_played' = played
                /\ player1_points' = p1
                /\ player2_points' = p2
                /\ point_servers' = Append(point_servers, current_server)
                /\ IF TieBreakIsWon(p1, p2)
                   THEN /\ player1_games' = p1g
                        /\ player2_games' = p2g
                        /\ games' = gs
                        /\ set_result' = << [set_winner |-> IF p1g > p2g THEN "player1" ELSE "player2",
                                             games |-> gs, CleanSet |-> FALSE,
                                             aces |-> set_aces,
                                             double_faults |-> set_double_faults] >>
                        /\ pc' = "set_return"
                   ELSE /\ pc' = "tiebreak"
                        /\ UNCHANGED <<player1_games, player2_games, games, set_result>>
    /\ rand_pos' = RandAdvance
    /\ UNCHANGED <<inputvars, matchvars, set_server_id, clean_set, set_aces,
                   set_double_faults, game_servers, last_game, served_aces,
                   served_double_faults, games_won_returning, fpvars, auxvars>>

----------------------------------------------------------------------------
(* simulate_match *)

NewCounts_AcesKept ==
    [Aces |-> 10, DoubleFaults |-> 0, GamesWon |-> 0, GamesLost |-> 0,
     SetsWon |-> 0, SetsLost |-> 0, Breaks |-> 0, CleanSet |-> FALSE,
     StraightSets |-> FALSE, NoDoubleFault |-> TRUE, TenPlusAces |-> TRUE,
     FifteenPlusAces |-> FALSE]

\* lines 516-544
NewCounts ==
    [Aces |-> 0, DoubleFaults |-> 0, GamesWon |-> 0, GamesLost |-> 0,
     SetsWon |-> 0, SetsLost |-> 0, Breaks |-> 0, CleanSet |-> FALSE,
     StraightSets |-> FALSE, NoDoubleFault |-> TRUE, TenPlusAces |-> FALSE,
     FifteenPlusAces |-> FALSE]

required_sets_Half(bo) == bo \div 2

\* line 619
required_sets(bo) == (bo \div 2) + 1

MatchIsWon_OnlyPlayer1(p1s, p2s, bo) == p1s = (bo \div 2) + 1

\* line 620
MatchIsWon(p1s, p2s, bo) == p1s = required_sets(bo) \/ p2s = required_sets(bo)

\* lines 556-607 with the double-fault flag cleared for either set winner
\* (any_winner) or the games lost taken as every game of the set (lost_all)
UpdateCounts_Variant(counts, me, sr, any_winner, lost_all) ==
    LET other == IF me = "player1" THEN "player2" ELSE "player1"
        won == sr.set_winner = me
        aces == counts.Aces + (IF won THEN sr.aces ELSE 0)
    IN [Aces |-> aces,
        DoubleFaults |-> counts.DoubleFaults + (IF won THEN sr.double_faults ELSE 0),
        GamesWon |-> counts.GamesWon + count(sr.games, me),
        GamesLost |-> counts.GamesLost
                      + (IF lost_all THEN Len(sr.games) ELSE count(sr.games, other)),
        SetsWon |-> counts.SetsWon + (IF won THEN 1 ELSE 0),
        SetsLost |-> counts.SetsLost + (IF won THEN 0 ELSE 1),
        Breaks |-> counts.Breaks + count(sr.games, me),
        CleanSet |-> IF sr.CleanSet /\ won THEN TRUE ELSE counts.CleanSet,
        StraightSets |-> counts.StraightSets,
        NoDoubleFault |-> IF (won \/ any_winner) /\ sr.double_faults > 0
                          THEN FALSE ELSE counts.NoDoubleFault,
        TenPlusAces |-> IF aces >= 15 THEN counts.TenPlusAces
                        ELSE IF aces >= 10 THEN TRUE ELSE counts.TenPlusAces,
        FifteenPlusAces |-> IF aces >= 15 THEN TRUE ELSE counts.FifteenPlusAces]

UpdateCounts_FlagForAnyWinner(counts, me, sr) ==
    UpdateCounts_Variant(counts, me, sr, TRUE, FALSE)

UpdateCounts_LostAllGames(counts, me, sr) ==
    UpdateCounts_Variant(counts, me, sr, FALSE, TRUE)

\* lines 556-607 for the player labelled me, with sr the set result
UpdateCounts(counts, me, sr) ==
    LET other == IF me = "player1" THEN "player2" ELSE "player1"
        won == sr.set_winner = me
        aces == counts.Aces + (IF won THEN sr.aces ELSE 0)
        dfs == counts.DoubleFaults + (IF won THEN sr.double_faults ELSE 0)
    IN [Aces |-> aces,
        DoubleFaults |-> dfs,
        GamesWon |-> counts.GamesWon + count(sr.games, me),
        GamesLost |-> counts.GamesLost + count(sr.games, other),
        SetsWon |-> counts.SetsWon + (IF won THEN 1 ELSE 0),
        SetsLost |-> counts.SetsLost + (IF won THEN 0 ELSE 1),
        Breaks |-> counts.Breaks + count(sr.games, me),
        CleanSet |-> IF sr.CleanSet /\ won THEN TRUE ELSE counts.CleanSet,
        StraightSets |-> counts.StraightSets,
        NoDoubleFault |-> IF won /\ sr.double_faults > 0 THEN FALSE ELSE counts.NoDoubleFault,
        TenPlusAces |-> IF aces >= 15 THEN counts.TenPlusAces
                        ELSE IF aces >= 10 THEN TRUE ELSE counts.TenPlusAces,
        FifteenPlusAces |-> IF aces >= 15 THEN TRUE ELSE counts.FifteenPlusAces]

WithStraightSets_BothPlayers(counts, me, match_winner, p1s, p2s, bo) ==
    IF (p1s = (bo \div 2) + 1 /\ p2s = 0) \/ (p2s = (bo \div 2) + 1 /\ p1s = 0)
    THEN [counts EXCEPT !.StraightSets = TRUE]
    ELSE counts

\* lines 625-631
WithStraightSets(counts, me, match_winner, p1s, p2s, bo) ==
    LET straight_sets == (p1s = required_sets(bo) /\ p2s = 0)
                         \/ (p2s = required_sets(bo) /\ p1s = 0)
    IN IF straight_sets /\ match_winner = me
       THEN [counts EXCEPT !.StraightSets = TRUE]
       ELSE counts

\* lines 634-666
FantasyStats(counts) ==
    [MatchPlayed |-> TRUE, AdvancedByWalkover |-> FALSE,
     Aces |-> counts.Aces, DoubleFaults |-> counts.DoubleFaults,
     GamesWon |-> counts.GamesWon, GamesLost |-> counts.GamesLost,
     SetsWon |-> counts.SetsWon, SetsLost |-> counts.SetsLost,
     CleanSet |-> counts.CleanSet, StraightSets |-> counts.StraightSets,
     NoDoubleFault |-> counts.NoDoubleFault, TenPlusAces |-> counts.TenPlusAces,
     FifteenPlusAces |-> counts.FifteenPlusAces, Breaks |-> counts.Breaks]

\* the body of the loop of simulate_match after simulate_set has returned
\* (lines 550-691), up to the return or the next call of simulate_set
MatchAfterSet ==
    /\ pc = "set_return"
    /\ LET sr == set_result[1]
           set_winner == sr.set_winner
           p1s == player1_sets + (IF set_winner = "player1" THEN 1 ELSE 0)
           p2s == player2_sets + (IF set_winner = "player1" THEN 0 ELSE 1)
           c1 == UpdateCounts(player1_fantasy_counts, "player1", sr)
           c2 == UpdateCounts(player2_fantasy_counts, "player2", sr)
           all_sets == Append(sets, [set_number |-> set_num, winner |-> set_winner,
                                     games |-> sr.games, CleanSet |-> sr.CleanSet])
       IN /\ player1_sets' = p1s
          /\ player2_sets' = p2s
          /\ sets' = all_sets
          /\ IF MatchIsWon(p1s, p2s, best_of)
             THEN LET match_winner == IF p1s > p2s THEN "player1" ELSE "player2"
                      f1 == WithStraightSets(c1, "player1", match_winner, p1s, p2s, best_of)
                      f2 == WithStraightSets(c2, "player2", match_winner, p1s, p2s, best_of)
                  IN /\ player1_fantasy_counts' = f1
                     /\ player2_fantasy_counts' = f2
                     /\ fantasy_stats' = <<FantasyStats(f1), FantasyStats(f2)>>
                     /\ result' = << [winner |-> match_winner,
                                      sets |-> all_sets,
                                      player1_fantasy_points |->
                                          calculate_fantasy_points(FantasyStats(f1),
                                              match_winner = "player1", best_of),
                                      player2_fantasy_points |->
                                          calculate_fantasy_points(FantasyStats(f2),
                                              match_winner = "player2", best_of)] >>
                     /\ pc' = "done"
                     /\ UNCHANGED <<set_num, server_id, setvars, tbvars, game_servers,
                                    point_servers, last_game>>
             ELSE /\ player1_fantasy_counts' = c1
                  /\ player2_fantasy_counts' = c2
                  /\ set_num' = set_num + 1
                  /\ server_id' = AlternateServer(server_id)
                  /\ SetStart(AlternateServer(server_id))
                  /\ pc' = "game"
                  /\ UNCHANGED <<fantasy_stats, result>>
    /\ UNCHANGED <<inputvars, rand_pos, served_aces, served_double_faults,
                   games_won_returning, fpvars, auxvars>>

----------------------------------------------------------------------------
(* calculate_fantasy_points called on a statistics record *)

NoStats ==
    [MatchPlayed |-> FALSE, AdvancedByWalkover |-> FALSE, Aces |-> 0,
     DoubleFaults |-> 0, GamesWon |-> 0, GamesLost |-> 0, SetsWon |-> 0,
     SetsLost |-> 0, CleanSet |-> FALSE, StraightSets |-> FALSE,
     NoDoubleFault |-> FALSE, TenPlusAces |-> FALSE, FifteenPlusAces |-> FALSE,
     Breaks |-> 0]

\* the counting fields of the records scored: none, the record of the
\* scoring-determinism test, and one unit of each field
CountFields == {"Aces", "DoubleFaults", "GamesWon", "GamesLost", "SetsWon", "SetsLost", "Breaks"}
LiteralCounts ==
    [Aces |-> 12, DoubleFaults |-> 2, GamesWon |-> 14, GamesLost |-> 8,
     SetsWon |-> 2, SetsLost |-> 0, Breaks |-> 3]
CountChoices ==
    {[f \in CountFields |-> 0], LiteralCounts}
    \cup {[f \in CountFields |-> IF f = g THEN 1 ELSE 0] : g \in CountFields}

StatsRecords ==
    {[MatchPlayed |-> mp, AdvancedByWalkover |-> wo, Aces |-> c.Aces,
      DoubleFaults |-> c.DoubleFaults, GamesWon |-> c.GamesWon,
      GamesLost |-> c.GamesLost, SetsWon |-> c.SetsWon, SetsLost |-> c.SetsLost,
      CleanSet |-> cs, StraightSets |-> ss, NoDoubleFault |-> nd,
      TenPlusAces |-> ten, FifteenPlusAces |-> fifteen, Breaks |-> c.Breaks] :
        mp \in BOOLEAN, wo \in BOOLEAN, cs \in BOOLEAN, ss \in BOOLEAN,
        nd \in BOOLEAN, ten \in BOOLEAN, fifteen \in BOOLEAN, c \in CountChoices}

\* a call calculate_fantasy_points(fp_stats, fp_match_won, fp_best_of): it
\* reads the record and assigns nothing to it
ScoreCall ==
    /\ pc = "score"
    /\ fp_calls < MaxScoreCalls
    /\ fp_points' = calculate_fantasy_points(fp_stats, fp_match_won, fp_best_of)
    /\ fp_calls' = fp_calls + 1
    /\ UNCHANGED <<inputvars, rand_pos, pc, matchvars, setvars, tbvars, histvars,
                   fp_stats, fp_match_won, fp_best_of, auxvars>>

----------------------------------------------------------------------------
(* PlayerStats.__post_init__ *)

\* a value passed for a field: its Python type and, for a number, its value
\* in hundredths (1.5 is [type |-> "float", val |-> 150])
Val(type, val) == [type |-> type, val |-> val]
None == Val("none", 0)

\* REQUIRED_FIELDS (lines 46-71), in its order: the player's name and the
\* rate fields the simulator reads
REQUIRED_FIELDS ==
    <<"Player", "AcePercentage", "FirstServeWonPercentage", "DoubleFaultPercentage",
      "ServiceGamesWonPercentage", "GamesWonPercentage", "ReturnPointsWonPercentage">>
RateFields == {REQUIRED_FIELDS[k] : k \in 2..Len(REQUIRED_FIELDS)}

\* lines 77-90: the first field that raises, if one does
post_init(values) ==
    LET missing(f) == values[f].type = "none"
        invalid(f) == values[f].type = "float"
                      /\ ~(0 <= values[f].val /\ values[f].val <= 100)
        raising == {k \in DOMAIN REQUIRED_FIELDS :
                        missing(REQUIRED_FIELDS[k]) \/ invalid(REQUIRED_FIELDS[k])}
        first == CHOOSE k \in raising : \A j \in raising : k <= j
    IN IF raising = {}
       THEN [ok |-> TRUE, field |-> "", error |-> ""]
       ELSE [ok |-> FALSE, field |-> REQUIRED_FIELDS[first],
             error |-> IF missing(REQUIRED_FIELDS[first]) THEN "missing" ELSE "invalid"]

\* PlayerStats(**ps_values) (lines 728-729)
Construct ==
    /\ pc = "construct"
    /\ ps_status = "new"
    /\ LET r == post_init(ps_values)
       IN /\ ps_status' = IF r.ok THEN "constructed" ELSE "error"
          /\ ps_error' = r
    /\ UNCHANGED <<inputvars, rand_pos, pc, matchvars, setvars, tbvars, histvars,
                   seriesvars, teamvars, fpvars, ps_values, lookupvars, genvars, slatevars>>

\* simulate_match(player1_stats, player2_stats, best_of) on the constructed
\* statistics (line 736): games are simulated from them
SimulateFromStats ==
    /\ pc = "construct"
    /\ ps_status = "constructed"
    /\ ps_status' = "simulated"
    /\ UNCHANGED <<inputvars, rand_pos, pc, matchvars, setvars, tbvars, histvars,
                   seriesvars, teamvars, fpvars, ps_values, ps_error, lookupvars, genvars, slatevars>>

\* the values a rate field is given
RateValues ==
    {None, Val("float", 50), Val("float", 150), Val("float", -10), Val("int", 2 * 100)}

ValueRecords ==
    {[f \in {REQUIRED_FIELDS[k] : k \in DOMAIN REQUIRED_FIELDS} |->
          IF f = "Player" THEN Val("str", 0) ELSE v[f]] : v \in [RateFields -> RateValues]}

----------------------------------------------------------------------------
(* get_player_stats and run_match_simulation *)

\* str.lower() on the names and surfaces of the model
Lower(str) ==
    CASE str \in {"Ana", "ANA"} -> "ana"
      [] str = "Bo" -> "bo"
      [] str = "Hard" -> "hard"
      [] str = "Clay" -> "clay"
      [] str = "All" -> "all"
      [] OTHER -> str

\* lines 174-177 and 181-184: the rows of a player on a surface
RowsOf(player_name_lower, surface_lower, data) ==
    {i \in DOMAIN data : /\ Lower(data[i].Player) = player_name_lower
                         /\ Lower(data[i].Surface) = surface_lower}

\* iloc[0] (line 192); 0 stands for None
FirstRow(rows) == IF rows = {} THEN 0 ELSE CHOOSE i \in rows : \A j \in rows : i <= j

get_player_stats_AnySurface(player_name, surface, data) ==
    LET player_row == RowsOf(Lower(player_name), Lower(surface), data)
    IN IF player_row = {}
       THEN FirstRow({i \in DOMAIN data : Lower(data[i].Player) = Lower(player_name)})
       ELSE FirstRow(player_row)

\* lines 158-192: the index of the row returned, 0 for None
get_player_stats(player_name, surface, data) ==
    LET player_row == RowsOf(Lower(player_name), Lower(surface), data)
    IN IF player_row = {}
       THEN FirstRow(RowsOf(Lower(player_name), "all", data))
       ELSE FirstRow(player_row)

GoodValues ==
    [f \in {REQUIRED_FIELDS[k] : k \in DOMAIN REQUIRED_FIELDS} |->
        IF f = "Player" THEN Val("str", 0) ELSE Val("float", 50)]
BadValues == [GoodValues EXCEPT !["AcePercentage"] = Val("float", 150)]

NoOutcome == [status |-> "pending", row1 |-> 0, row2 |-> 0]

\* lines 709-740: the outcome is None ("not_found", "invalid") or the match
\* simulated from the two rows
RunMatchSimulation ==
    /\ pc = "lookup"
    /\ rms = NoOutcome
    /\ LET player1_stats_row == get_player_stats(request.player1_name, request.surface, player_data)
           player2_stats_row == get_player_stats(request.player2_name, request.surface, player_data)
       IN rms' =
            IF player1_stats_row = 0 \/ player2_stats_row = 0
            THEN [status |-> "not_found", row1 |-> player1_stats_row, row2 |-> player2_stats_row]
            ELSE IF ~post_init(player_data[player1_stats_row].values).ok
                    \/ ~post_init(player_data[player2_stats_row].values).ok
            THEN [status |-> "invalid", row1 |-> player1_stats_row, row2 |-> player2_stats_row]
            ELSE [status |-> "simulated", row1 |-> player1_stats_row, row2 |-> player2_stats_row]
    /\ UNCHANGED <<inputvars, rand_pos, pc, matchvars, setvars, tbvars, histvars,
                   seriesvars, teamvars, fpvars, ctorvars, player_data, request, genvars, slatevars>>

Rows ==
    {[Player |-> n, Surface |-> sf, values |-> v] :
        n \in {"Ana", "Bo"}, sf \in {"Hard", "Clay", "All"}, v \in {GoodValues, BadValues}}

Tables == UNION {[1..n -> Rows] : n \in 0..MaxRows}

Requests ==
    {[player1_name |-> a, player2_name |-> b, surface |-> sf] :
        a \in {"ANA", "Bo"}, b \in {"ANA", "Bo"}, sf \in {"hard", "Clay"}}

NoConstruction ==
    /\ ps_values = << >>
    /\ ps_status = "idle"
    /\ ps_error = [ok |-> TRUE, field |-> "", error |-> ""]

NoLookup ==
    /\ player_data = << >>
    /\ request = [player1_name |-> "", player2_name |-> "", surface |-> ""]
    /\ rms = NoOutcome

----------------------------------------------------------------------------
(* generate_simulations: projections in whole points, usage shares in
   hundredths, adjusted projections and outcomes in hundredths of a point *)

\* np.sign
sign(x) == IF x > 0 THEN 1 ELSE IF x < 0 THEN -1 ELSE 0

\* the values np.random.normal(0, std_dev) takes in the model
NormalDraws(std_dev) == IF std_dev = 0 THEN {0} ELSE {-4, 0, 3}

\* np.random.normal raises ValueError for a negative scale
NegativeScale_Always(std_devs) == TRUE

NegativeScale(std_devs) == \E sd \in std_devs : sd < 0

\* line 49: the share of a position the usage map does not list
DefaultUsage == 20

\* line 58
TrackedPositions == {"WR1", "WR2", "WR3", "TE", "RB"}

\* lines 14-21, by the number of aligned entities plus one
Buckets ==
    <<"zero_of_five", "one_of_five", "two_of_five", "three_of_five",
      "four_of_five", "all_five">>

QBRows(d) == {i \in DOMAIN d : d[i].Position = "QB"}
OtherRows(d) == {i \in DOMAIN d : d[i].Position # "QB"}
Last(rows) == CHOOSE i \in rows : \A j \in rows : j <= i

qb_variance_dict_Unscaled(d, draws, correlation_factor) ==
    [team \in {d[i].Team : i \in QBRows(d)} |->
        draws[Last({i \in QBRows(d) : d[i].Team = team})]]

\* lines 31-35: for every team with a QB, the draw of its (last) QB times
\* the correlation factor
qb_variance_dict(d, draws, correlation_factor) ==
    [team \in {d[i].Team : i \in QBRows(d)} |->
        draws[Last({i \in QBRows(d) : d[i].Team = team})] * correlation_factor]

usage_factor_Default35(player_usage, position) ==
    IF position \in DOMAIN player_usage THEN player_usage[position] ELSE 35

\* line 49: player_usage.get(position, 0.2)
usage_factor(player_usage, position) ==
    IF position \in DOMAIN player_usage THEN player_usage[position] ELSE DefaultUsage

adjusted_projection_Uncorrelated(row, variances, player_usage, independent_variance) ==
    100 * row.BaseProjection + 100 * independent_variance

\* lines 34 and 47-53, in hundredths
adjusted_projection(row, variances, player_usage, independent_variance) ==
    IF row.Position = "QB"
    THEN 100 * row.BaseProjection + 100 * independent_variance
    ELSE IF row.Team \in DOMAIN variances
    THEN 100 * row.BaseProjection
         + variances[row.Team] * usage_factor(player_usage, row.Position)
         + 100 * independent_variance
    ELSE 100 * row.BaseProjection + 100 * independent_variance

\* the adjusted projection of every row in one trial
Adjusted(d, cfg, draws) ==
    [i \in DOMAIN d |->
        adjusted_projection(d[i], qb_variance_dict(d, draws, cfg.correlation_factor),
                            cfg.player_usage, draws[i])]

\* max(0, .) of lines 36 and 55
floor0(x) == IF x < 0 THEN 0 ELSE x

sim_result_QBOnly(d, adjusted) ==
    [name \in {d[i].Player : i \in QBRows(d)} |->
        floor0(adjusted[Last({i \in QBRows(d) : d[i].Player = name})])]

\* lines 26-55: QB rows are written first, then the others, so a repeated
\* name keeps the value of its last non-QB row if it has one
sim_result(d, adjusted) ==
    [name \in {d[i].Player : i \in DOMAIN d} |->
        LET others == {i \in OtherRows(d) : d[i].Player = name}
            qbs == {i \in QBRows(d) : d[i].Player = name}
        IN floor0(adjusted[Last(IF others # {} THEN others ELSE qbs)])]

\* lines 57-59
TrackedRows(d) == {i \in OtherRows(d) : d[i].Position \in TrackedPositions}

\* lines 63-65
num_aligned(d, cfg, draws) ==
    LET variances == qb_variance_dict(d, draws, cfg.correlation_factor)
        qb_direction == sign(IF "Team_A" \in DOMAIN variances THEN variances["Team_A"] ELSE 0)
        adjusted == Adjusted(d, cfg, draws)
    IN Cardinality({i \in TrackedRows(d) :
                        sign(adjusted[i] - 100 * d[i].BaseProjection) = qb_direction})

\* lines 66-77
bucket(n) == IF n \in 1..5 THEN Buckets[n + 1] ELSE "zero_of_five"

DrawVectors(d) ==
    {draws \in [DOMAIN d -> {-4, 0, 3}] : \A i \in DOMAIN d : draws[i] \in NormalDraws(d[i].StdDev)}

\* one iteration of the loop of lines 25-79
GenTrial ==
    /\ pc = "gen"
    /\ gen_status = "running"
    /\ Len(simulation_results) < config.num_simulations
    /\ ~NegativeScale({df[i].StdDev : i \in DOMAIN df})
    /\ \E draws \in DrawVectors(df) :
         LET adjusted == Adjusted(df, config, draws)
             incremented == IF TrackedRows(df) = {} THEN "none"
                            ELSE bucket(num_aligned(df, config, draws))
         IN /\ simulation_results' = Append(simulation_results, sim_result(df, adjusted))
            /\ alignment_counts' =
                 IF incremented = "none" THEN alignment_counts
                 ELSE [alignment_counts EXCEPT ![incremented] = @ + 1]
            /\ trial_log' = Append(trial_log,
                 [draws |-> draws, adjusted |-> adjusted, incremented |-> incremented])
    /\ UNCHANGED <<inputvars, rand_pos, pc, matchvars, setvars, tbvars, histvars,
                   seriesvars, teamvars, fpvars, ctorvars, lookupvars, df, config, gen_status, slatevars>>

\* np.random.normal(0, std_dev) of lines 33 and 44 raises in the first trial
GenRaise ==
    /\ pc = "gen"
    /\ gen_status = "running"
    /\ Len(simulation_results) < config.num_simulations
    /\ NegativeScale({df[i].StdDev : i \in DOMAIN df})
    /\ gen_status' = "raised"
    /\ UNCHANGED <<inputvars, rand_pos, pc, matchvars, setvars, tbvars, histvars,
                   seriesvars, teamvars, fpvars, ctorvars, lookupvars, df, config, simulation_results,
                   alignment_counts, trial_log, slatevars>>

\* lines 81-82
GenReturn ==
    /\ pc = "gen"
    /\ gen_status = "running"
    /\ Len(simulation_results) = config.num_simulations
    /\ gen_status' = "returned"
    /\ UNCHANGED <<inputvars, rand_pos, pc, matchvars, setvars, tbvars, histvars,
                   seriesvars, teamvars, fpvars, ctorvars, lookupvars, df, config, simulation_results,
                   alignment_counts, trial_log, slatevars>>

PlayerRow(player, position, team, base_projection, std_dev) ==
    [Player |-> player, Position |-> position, Team |-> team,
     BaseProjection |-> base_projection, StdDev |-> std_dev]

\* main.py: the Team_A roster, its last three tracked entities and the DST
\* without dispersion
ReferenceRoster ==
    <<PlayerRow("QB_Team_A", "QB", "Team_A", 20, 1),
      PlayerRow("WR1_Team_A", "WR1", "Team_A", 18, 1),
      PlayerRow("WR2_Team_A", "WR2", "Team_A", 15, 1),
      PlayerRow("WR3_Team_A", "WR3", "Team_A", 12, 0),
      PlayerRow("TE_Team_A", "TE", "Team_A", 10, 0),
      PlayerRow("RB_Team_A", "RB", "Team_A", 16, 0),
      PlayerRow("DST_Team_A", "DST", "Team_A", 8, 0)>>

Rosters ==
    { << >>,
      ReferenceRoster,
      \* a driver, one teammate and an entity whose position has no usage share
      <<PlayerRow("QB_Team_A", "QB", "Team_A", 20, 1),
        PlayerRow("WR1_Team_A", "WR1", "Team_A", 18, 1),
        PlayerRow("K_Team_A", "K", "Team_A", 8, 0)>>,
      \* no driver, and a projection low enough to reach the floor
      <<PlayerRow("WR1_Team_B", "WR1", "Team_B", 1, 1)>>,
      \* two teams
      <<PlayerRow("QB_Team_A", "QB", "Team_A", 20, 1),
        PlayerRow("QB_Team_B", "QB", "Team_B", 19, 1),
        PlayerRow("WR1_Team_B", "WR1", "Team_B", 14, 1)>>,
      \* six tracked entities
      <<PlayerRow("QB_Team_A", "QB", "Team_A", 20, 1),
        PlayerRow("WR1_Team_A", "WR1", "Team_A", 18, 0),
        PlayerRow("WR2_Team_A", "WR2", "Team_A", 15, 0),
        PlayerRow("WR3_Team_A", "WR3", "Team_A", 12, 0),
        PlayerRow("TE_Team_A", "TE", "Team_A", 10, 0),
        PlayerRow("RB_Team_A", "RB", "Team_A", 16, 0),
        PlayerRow("RB2_Team_A", "RB", "Team_A", 9, 0)>>,
      \* a negative dispersion
      <<PlayerRow("QB_Team_A", "QB", "Team_A", 20, -1)>>,
      \* a repeated name
      <<PlayerRow("WR_Team_A", "WR1", "Team_A", 18, 0),
        PlayerRow("WR_Team_A", "WR2", "Team_A", 15, 0)>> }

\* main.py, CONFIG["player_usage"]
ReferenceUsage ==
    [position \in TrackedPositions |->
        CASE position = "WR1" -> 35
          [] position = "WR2" -> 25
          [] position = "RB" -> 20
          [] OTHER -> 15]

Config(n, correlation_factor, player_usage) ==
    [num_simulations |-> n, correlation_factor |-> correlation_factor,
     player_usage |-> player_usage]

Configs ==
    {Config(n, cf_usage[1], cf_usage[2]) :
        n \in 0..MaxTrials,
        cf_usage \in {<<2, ReferenceUsage>>, <<0, ReferenceUsage>>,
                      <<1, [ReferenceUsage EXCEPT !["WR1"] = 100]>>}}

NoCounts == [b \in {Buckets[k] : k \in DOMAIN Buckets} |-> 0]

NoGeneration ==
    /\ df = << >>
    /\ config = Config(0, 0, << >>)
    /\ simulation_results = << >>
    /\ alignment_counts = NoCounts
    /\ gen_status = "idle"
    /\ trial_log = << >>

----------------------------------------------------------------------------
(* run_simulation_slate and summarize_simulation_results: totals and bases
   in whole points, team shares in hundredths, player points in hundredths,
   percentiles in ten-thousandths *)

\* models.py, lines 27-29: the values np.random.lognormal takes in the model
LogNormalDraws(total) == {total - 2, total + 3}

\* simulator.py, lines 53 and 65: player.get('team_share', 1)
team_share(player) == IF "team_share" \in DOMAIN player THEN player.team_share ELSE 100

\* simulator.py, lines 35-38: a dict, so the second team replaces the first
\* under an equal name
team_scores(meta, scores1, scores2) ==
    [name \in {meta.team1_name, meta.team2_name} |->
        IF name = meta.team2_name THEN scores2 ELSE scores1]

\* simulator.py, lines 41-66: team 1's players, then team 2's
player_points(meta, n, draws) ==
    LET players == meta.team1_players \o meta.team2_players
    IN [name \in {players[i].name : i \in DOMAIN players} |->
           LET i == Last({j \in DOMAIN players : players[j].name = name})
           IN [k \in 1..n |-> (players[i].base + draws[i][k]) * team_share(players[i])]]

\* simulator.py, lines 9-72
RunSlate ==
    /\ pc = "slate"
    /\ slate_status = "ready"
    /\ LET players == game_metadata.team1_players \o game_metadata.team2_players
       IN IF NegativeScale({players[i].std_dev : i \in DOMAIN players})
          THEN /\ slate_status' = "raised"
               /\ slate' = slate
          ELSE /\ slate_status' = "returned"
               /\ \E scores1 \in [1..num_simulations -> LogNormalDraws(game_metadata.team1_total)],
                     scores2 \in [1..num_simulations -> LogNormalDraws(game_metadata.team2_total)] :
                    \E draws \in {d \in [DOMAIN players -> [1..num_simulations -> {-4, 0, 3}]] :
                                    \A i \in DOMAIN players : \A k \in 1..num_simulations :
                                        d[i][k] \in NormalDraws(players[i].std_dev)} :
                       slate' = [team_scores |-> team_scores(game_metadata, scores1, scores2),
                                 player_points |-> player_points(game_metadata, num_simulations, draws)]
    /\ UNCHANGED <<inputvars, rand_pos, pc, matchvars, setvars, tbvars, histvars,
                   seriesvars, teamvars, fpvars, ctorvars, lookupvars, genvars, game_metadata,
                   num_simulations, summary>>

RECURSIVE Insert(_, _)
Insert(x, sorted) ==
    IF sorted = << >> THEN <<x>>
    ELSE IF x <= Head(sorted) THEN <<x>> \o sorted
    ELSE <<Head(sorted)>> \o Insert(x, Tail(sorted))

RECURSIVE Sorted(_)
Sorted(points) == IF points = << >> THEN << >> ELSE Insert(Head(points), Sorted(Tail(points)))

percentile_Lower(points, q) ==
    100 * Sorted(points)[(q * (Len(points) - 1)) \div 100 + 1]

\* np.percentile(points, q): linear interpolation between the order
\* statistics around q/100 * (n - 1), times 100
percentile(points, q) ==
    LET sorted == Sorted(points)
        position == q * (Len(points) - 1)
        below == position \div 100
        fraction == position % 100
    IN IF fraction = 0 THEN 100 * sorted[below + 1]
       ELSE 100 * sorted[below + 1] + fraction * (sorted[below + 2] - sorted[below + 1])

\* summarize_simulation_results.py, lines 28-35
PercentileKeys == <<"25th", "50th", "75th", "85th", "95th", "99th">>
PercentileRanks == <<25, 50, 75, 85, 95, 99>>

player_percentiles_ZeroFilled(points_by_player) ==
    [player \in DOMAIN points_by_player |->
        [key \in {PercentileKeys[k] : k \in DOMAIN PercentileKeys} |->
            IF points_by_player[player] = << >> THEN 0
            ELSE percentile(points_by_player[player],
                            PercentileRanks[CHOOSE k \in DOMAIN PercentileKeys :
                                                PercentileKeys[k] = key])]]

\* summarize_simulation_results.py, lines 24-37
player_percentiles(points_by_player) ==
    [player \in {pl \in DOMAIN points_by_player : points_by_player[pl] # << >>} |->
        [key \in {PercentileKeys[k] : k \in DOMAIN PercentileKeys} |->
            percentile(points_by_player[player],
                       PercentileRanks[CHOOSE k \in DOMAIN PercentileKeys : PercentileKeys[k] = key])]]

\* summarize_simulation_results.py, lines 9-47
Summarize ==
    /\ pc = "slate"
    /\ slate_status = "returned"
    /\ slate_status' = "summarized"
    /\ summary' = [total_games |-> Len(slate.team_scores[game_metadata.team1_name]),
                   team_scores |-> slate.team_scores,
                   player_points |-> slate.player_points,
                   player_percentiles |-> player_percentiles(slate.player_points)]
    /\ UNCHANGED <<inputvars, rand_pos, pc, matchvars, setvars, tbvars, histvars,
                   seriesvars, teamvars, fpvars, ctorvars, lookupvars, genvars, game_metadata,
                   num_simulations, slate>>

Metadata(players1, players2) ==
    [team1_name |-> "Team_A", team1_total |-> 24, team1_players |-> players1,
     team2_name |-> "Team_B", team2_total |-> 21, team2_players |-> players2]

Games ==
    { Metadata(<< >>, << >>),
      Metadata(<<[name |-> "QB_Team_A", base |-> 10, std_dev |-> 1]>>,
               <<[name |-> "WR1_Team_B", base |-> 8, std_dev |-> 0, team_share |-> 50]>>),
      Metadata(<<[name |-> "QB_Team_A", base |-> 10, std_dev |-> -1]>>, << >>) }

NoSlateResult == [team_scores |-> << >>, player_points |-> << >>]
NoSummary == [total_games |-> 0, team_scores |-> << >>, player_points |-> << >>,
              player_percentiles |-> << >>]

NoSlate ==
    /\ game_metadata = Metadata(<< >>, << >>)
    /\ num_simulations = 0
    /\ slate = NoSlateResult
    /\ slate_status = "idle"
    /\ summary = NoSummary

----------------------------------------------------------------------------
(* Team.simulate_scores: variability in hundredths *)

\* models.py, lines 26-28: sigma = sqrt(log(1 + variability**2)) is 0 for
\* variability 0 and positive otherwise, and mu = log(implied_total) for
\* sigma 0, so the draws are then the implied total itself
ScoreDraws(total, v) == IF v * v = 0 THEN {total} ELSE LogNormalDraws(total)

\* models.py, lines 16-32: no input of the model makes line 28 raise
SimulateScores ==
    /\ pc = "team"
    /\ team_status = "ready"
    /\ simulated_scores' \in [1..num_simulations -> ScoreDraws(implied_total, variability)]
    /\ team_status' = "stored"
    /\ UNCHANGED <<inputvars, rand_pos, pc, matchvars, setvars, tbvars, histvars,
                   fpvars, ctorvars, lookupvars, genvars, slatevars, seriesvars,
                   implied_total, variability>>

\* the default 0.15 of line 16, a larger value, zero and a negative value
Variabilities == {15, 30, 0, -15}

NoTeam ==
    /\ implied_total = 24
    /\ variability = 15
    /\ simulated_scores = << >>
    /\ team_status = "idle"

----------------------------------------------------------------------------
(* Initial states and specifications *)

Tapes == [1..TapeLen -> Outcomes]

\* the locals of simulate_match at line 546
MatchStart ==
    /\ player1_sets = 0
    /\ player2_sets = 0
    /\ set_num = 1
    /\ sets = << >>
    /\ player1_fantasy_counts = NewCounts
    /\ player2_fantasy_counts = NewCounts
    /\ fantasy_stats = << >>
    /\ result = << >>
    /\ match_calls = 1

\* the locals of simulate_set at line 385
SetInit ==
    /\ set_server_id = server_id
    /\ player1_games = 0
    /\ player2_games = 0
    /\ games = << >>
    /\ clean_set = TRUE
    /\ set_aces = 0
    /\ set_double_faults = 0
    /\ set_result = << >>
    /\ player1_points = 0
    /\ player2_points = 0
    /\ points_played = 0
    /\ game_servers = << >>
    /\ point_servers = << >>
    /\ last_game = NoGame
    /\ served_aces = [i \in 1..2 |-> 0]
    /\ served_double_faults = [i \in 1..2 |-> 0]
    /\ games_won_returning = [i \in 1..2 |-> 0]

NoScoring ==
    /\ fp_stats = NoStats
    /\ fp_match_won = FALSE
    /\ fp_best_of = 3
    /\ fp_points = 0
    /\ fp_calls = 0

\* one call simulate_set(server_id, player1_stats, player2_stats), every
\* draw of the random stream free
InitSet ==
    /\ best_of = 3
    /\ player1_stats \in Profiles
    /\ player2_stats \in Profiles
    /\ rand_tape = << >>
    /\ rand_pos = 0
    /\ pc = "game"
    /\ server_id \in {1, 2}
    /\ MatchStart
    /\ SetInit
    /\ NoScoring
    /\ NoConstruction
    /\ NoLookup
    /\ NoGeneration
    /\ NoSlate
    /\ NoTeam

NextSet == PlayGame \/ TieBreakPoint

SpecSet == InitSet /\ [][NextSet]_vars

\* one call simulate_match(player1_stats, player2_stats, best_of), the random
\* stream one of the cyclic tapes
InitMatch ==
    /\ best_of \in {3, 5}
    /\ player1_stats \in Profiles
    /\ player2_stats \in Profiles
    /\ rand_tape \in Tapes
    /\ rand_pos = 0
    /\ pc = "game"
    /\ server_id = 1
    /\ MatchStart
    /\ SetInit
    /\ NoScoring
    /\ NoConstruction
    /\ NoLookup
    /\ NoGeneration
    /\ NoSlate
    /\ NoTeam

NextMatch == PlayGame \/ TieBreakPoint \/ MatchAfterSet

SpecMatch == InitMatch /\ [][NextMatch]_vars

\* calls of calculate_fantasy_points on one statistics record
InitScore ==
    /\ best_of = 3
    /\ player1_stats = EvenPlayer
    /\ player2_stats = EvenPlayer
    /\ rand_tape = << >>
    /\ rand_pos = 0
    /\ pc = "score"
    /\ server_id = 1
    /\ MatchStart
    /\ SetInit
    /\ fp_stats \in StatsRecords
    /\ fp_match_won \in BOOLEAN
    /\ fp_best_of \in {3, 5}
    /\ fp_points = 0
    /\ fp_calls = 0
    /\ NoConstruction
    /\ NoLookup
    /\ NoGeneration
    /\ NoSlate
    /\ NoTeam

NextScore == ScoreCall

SpecScore == InitScore /\ [][NextScore]_vars

\* the tennis simulator and the scorer at rest
NoMatch ==
    /\ best_of = 3
    /\ player1_stats = EvenPlayer
    /\ player2_stats = EvenPlayer
    /\ rand_tape = << >>
    /\ rand_pos = 0
    /\ server_id = 1
    /\ MatchStart
    /\ SetInit
    /\ NoScoring

\* PlayerStats(**values) on one set of values, then simulate_match on the
\* object if it was constructed
InitConstruct ==
    /\ pc = "construct"
    /\ NoMatch
    /\ ps_values \in ValueRecords
    /\ ps_status = "new"
    /\ ps_error = [ok |-> TRUE, field |-> "", error |-> ""]
    /\ NoLookup
    /\ NoGeneration
    /\ NoSlate
    /\ NoTeam

NextConstruct == Construct \/ SimulateFromStats

SpecConstruct == InitConstruct /\ [][NextConstruct]_vars

\* one call run_match_simulation(player1_name, player2_name, surface, player_data)
InitLookup ==
    /\ pc = "lookup"
    /\ NoMatch
    /\ NoConstruction
    /\ player_data \in Tables
    /\ request \in Requests
    /\ rms = NoOutcome
    /\ NoGeneration
    /\ NoSlate
    /\ NoTeam

NextLookup == RunMatchSimulation

SpecLookup == InitLookup /\ [][NextLookup]_vars

\* one call generate_simulations(df, config)
InitGen ==
    /\ pc = "gen"
    /\ df \in Rosters
    /\ config \in Configs
    /\ simulation_results = << >>
    /\ alignment_counts = NoCounts
    /\ gen_status = "running"
    /\ trial_log = << >>
    /\ NoSlate
    /\ NoTeam

\* one call run_simulation_slate(processed_data, game_metadata,
\* num_simulations), then summarize_simulation_results on what it returned
InitSlate ==
    /\ pc = "slate"
    /\ NoGeneration
    /\ game_metadata \in Games
    /\ num_simulations \in 0..MaxTrials
    /\ slate = NoSlateResult
    /\ slate_status = "ready"
    /\ summary = NoSummary
    /\ NoTeam

\* one call team.simulate_scores(num_simulations, variability) on a new Team
InitTeam ==
    /\ pc = "team"
    /\ NoGeneration
    /\ game_metadata = Metadata(<< >>, << >>)
    /\ num_simulations \in 0..MaxTrials
    /\ slate = NoSlateResult
    /\ slate_status = "idle"
    /\ summary = NoSummary
    /\ implied_total \in {24, 21}
    /\ variability \in Variabilities
    /\ simulated_scores = << >>
    /\ team_status = "ready"

InitRunner ==
    /\ NoMatch
    /\ NoConstruction
    /\ NoLookup
    /\ InitGen \/ InitSlate \/ InitTeam

NextRunner ==
    GenTrial \/ GenRaise \/ GenReturn \/ RunSlate \/ Summarize \/ SimulateScores

SpecRunner == InitRunner /\ [][NextRunner]_vars

\* a game log: n1 games credited to player 1, then n2 to player 2, then the
\* last game
GameLog(n1, n2, last) ==
    [k \in 1..(n1 + n2 + 1) |->
        IF k <= n1 THEN "player1" ELSE IF k <= n1 + n2 THEN "player2" ELSE last]

\* a game log of twelve games credited in turn and the tie-break entry
TieBreakLog == [k \in 1..13 |-> IF k % 2 = 1 THEN "player1" ELSE "player2"]

\* what simulate_set can return (lines 410-417 and 427-434): a 6-0 set, a
\* 4-6 set and a set won by player 1 in the tie-break, with ace and
\* double-fault totals that rates strictly inside (0, 1) allow
SetResults ==
    {[set_winner |-> lg[1], games |-> lg[2], CleanSet |-> lg[3],
      aces |-> a, double_faults |-> d] :
        lg \in {<<"player1", GameLog(5, 0, "player1"), TRUE>>,
                <<"player2", GameLog(4, 5, "player2"), FALSE>>,
                <<"player1", TieBreakLog, FALSE>>},
        a \in {0, 6, 16}, d \in {0, 2}}

\* the call of simulate_set at line 549, taken as a whole: it returns one
\* of the set results
SimulateSetReturns ==
    /\ pc = "game"
    /\ set_result' \in {<<sr>> : sr \in SetResults}
    /\ pc' = "set_return"
    /\ UNCHANGED <<inputvars, rand_pos, matchvars, set_server_id, player1_games,
                   player2_games, games, clean_set, set_aces, set_double_faults,
                   tbvars, histvars, fpvars, auxvars>>

\* simulate_match with every call of simulate_set taken as a whole
InitCounts ==
    /\ best_of \in {3, 5}
    /\ player1_stats = EvenPlayer
    /\ player2_stats = EvenPlayer
    /\ rand_tape = << >>
    /\ rand_pos = 0
    /\ pc = "game"
    /\ server_id = 1
    /\ MatchStart
    /\ SetInit
    /\ NoScoring
    /\ NoConstruction
    /\ NoLookup
    /\ NoGeneration
    /\ NoSlate
    /\ NoTeam

NextCounts == SimulateSetReturns \/ MatchAfterSet

SpecCounts == InitCounts /\ [][NextCounts]_vars

\* simulate_match run to its end: the interpreter always takes the next step
FairMatch == WF_vars(NextMatch)

SpecMatchFair == SpecMatch /\ FairMatch

\* a further call simulate_match(player1_stats, player2_stats, best_of) on
\* the same objects after the previous call has returned: lines 505-546 and
\* the entry of simulate_set
SimulateMatchAgain ==
    /\ pc = "done"
    /\ match_calls < MaxMatches
    /\ match_calls' = match_calls + 1
    /\ player1_sets' = 0
    /\ player2_sets' = 0
    /\ set_num' = 1
    /\ server_id' = 1
    /\ sets' = << >>
    /\ player1_fantasy_counts' = NewCounts
    /\ player2_fantasy_counts' = NewCounts
    /\ fantasy_stats' = << >>
    /\ result' = << >>
    /\ SetStart(1)
    /\ served_aces' = [i \in 1..2 |-> 0]
    /\ served_double_faults' = [i \in 1..2 |-> 0]
    /\ games_won_returning' = [i \in 1..2 |-> 0]
    /\ pc' = "game"
    /\ UNCHANGED <<inputvars, rand_pos, fpvars, ctorvars, lookupvars, genvars,
                   slatevars, teamvars>>

\* a series of calls of simulate_match on the same two PlayerStats objects
NextSeries == PlayGame \/ TieBreakPoint \/ MatchAfterSet \/ SimulateMatchAgain

SpecSeries == InitMatch /\ [][NextSeries]_vars

Init == InitMatch
Next == NextMatch
Spec == SpecMatch

----------------------------------------------------------------------------
(* Claims *)

\* C1: every set result has a final game score in which the set winner has
\* at least 6 games and leads by at least 2, or the score is 7-6 reached by
\* a tie-break played at 6-6; the set winner is the side with more games.
C1_SetScoreValid ==
    pc = "set_return" =>
        LET sr == set_result[1]
            g1 == count(sr.games, "player1")
            g2 == count(sr.games, "player2")
            hi == IF g1 > g2 THEN g1 ELSE g2
            lo == IF g1 > g2 THEN g2 ELSE g1
        IN /\ \/ hi >= 6 /\ hi - lo >= 2
              \/ /\ hi = 7 /\ lo = 6
                 /\ Len(sr.games) = 13
                 /\ count(SubSeq(sr.games, 1, 12), "player1") = 6
                 /\ points_played > 0
           /\ g1 # g2
           /\ sr.set_winner = (IF g1 > g2 THEN "player1" ELSE "player2")

C1_Witness_TieBreakSet ==
    /\ pc = "set_return"
    /\ server_id = 2
    /\ count(set_result[1].games, "player1") = 6
    /\ count(set_result[1].games, "player2") = 7
    /\ set_result[1].set_winner = "player2"

SetWins(who) == Cardinality({i \in DOMAIN sets : sets[i].winner = who})

\* C2: simulate_match plays sets until one player has floor(best_of/2)+1 set
\* wins and stops there: at completion the winner has exactly that many, the
\* loser fewer, the sets played number between that and best_of, and the
\* reported winner is the player with more set wins.
C2_MatchLength ==
    LET need == (best_of \div 2) + 1
        w1 == SetWins("player1")
        w2 == SetWins("player2")
    IN /\ pc # "done" => (result = << >> /\ w1 < need /\ w2 < need)
       /\ pc = "done" =>
            /\ result[1].sets = sets
            /\ (w1 = need /\ w2 < need) \/ (w2 = need /\ w1 < need)
            /\ Len(sets) >= need /\ Len(sets) <= best_of
            /\ result[1].winner = (IF w1 > w2 THEN "player1" ELSE "player2")

C2_Witness_FiveSets ==
    /\ pc = "done"
    /\ best_of = 5
    /\ Len(sets) = 5
    /\ result[1].winner = "player2"

\* the scoring table, in hundredths: (best-of-3 value, best-of-5 value)
C3_Table ==
    [MatchWon |-> <<600, 500>>, GameWon |-> <<250, 200>>, GameLost |-> <<-200, -160>>,
     SetWon |-> <<600, 500>>, SetLost |-> <<-300, -250>>, Ace |-> <<40, 25>>,
     Break |-> <<75, 50>>, CleanSet |-> <<400, 250>>, StraightSets |-> <<600, 500>>,
     NoDoubleFault |-> <<250, 500>>]

C3_TablePoints(stats, match_won, bo) ==
    LET col == IF bo = 3 THEN 1 ELSE 2
        B(flag, v) == IF flag THEN v ELSE 0
    IN B(stats.MatchPlayed, 3000) + B(stats.AdvancedByWalkover, 3000)
       - stats.DoubleFaults * 100
       + B(stats.TenPlusAces, 200) + B(stats.FifteenPlusAces, 200)
       + B(match_won, C3_Table.MatchWon[col])
       + stats.GamesWon * C3_Table.GameWon[col]
       + stats.GamesLost * C3_Table.GameLost[col]
       + stats.SetsWon * C3_Table.SetWon[col]
       + stats.SetsLost * C3_Table.SetLost[col]
       + stats.Aces * C3_Table.Ace[col]
       + stats.Breaks * C3_Table.Break[col]
       + B(stats.CleanSet, C3_Table.CleanSet[col])
       + B(stats.StraightSets, C3_Table.StraightSets[col])
       + B(stats.NoDoubleFault, C3_Table.NoDoubleFault[col])

C3_LiteralRecord ==
    [MatchPlayed |-> TRUE, AdvancedByWalkover |-> FALSE, Aces |-> 12,
     DoubleFaults |-> 2, GamesWon |-> 14, GamesLost |-> 8, SetsWon |-> 2,
     SetsLost |-> 0, CleanSet |-> FALSE, StraightSets |-> TRUE,
     NoDoubleFault |-> FALSE, TenPlusAces |-> TRUE, FifteenPlusAces |-> FALSE,
     Breaks |-> 3]

\* C3: every call of calculate_fantasy_points returns the total of the fixed
\* table for (record, match_won, best_of), 80.05 for the literal record of
\* the determinism test with match_won and best_of = 3, and leaves the
\* record as it was.
C3_ScoreIsTable ==
    (pc = "score" /\ fp_calls > 0) =>
        /\ fp_points = C3_TablePoints(fp_stats, fp_match_won, fp_best_of)
        /\ (fp_stats = C3_LiteralRecord /\ fp_match_won /\ fp_best_of = 3)
              => fp_points = 8005
        /\ fp_stats \in StatsRecords

C3_Witness_LiteralTwice ==
    /\ pc = "score"
    /\ fp_calls = 2
    /\ fp_stats = C3_LiteralRecord
    /\ fp_match_won
    /\ fp_best_of = 3
    /\ fp_points = 8005

\* C4: simulate_tie_break returns only when one player has at least 7 points
\* and leads by at least 2, the returned winner being the player with more
\* points; in every other state of a tie-break it goes on to another point.
C4_TieBreakDecided ==
    LET decided == (player1_points >= 7 \/ player2_points >= 7)
                   /\ (player1_points - player2_points >= 2
                       \/ player2_points - player1_points >= 2)
    IN /\ pc = "tiebreak" => ~decided
       /\ (pc = "set_return" /\ points_played > 0) =>
            /\ decided
            /\ games[Len(games)] =
                 (IF player1_points > player2_points THEN "player1" ELSE "player2")

C4_Witness_NineSeven ==
    /\ pc = "set_return"
    /\ player1_points = 7
    /\ player2_points = 9
    /\ games[Len(games)] = "player2"

\* the server of tie-break point k under the standard rotation
C5_StandardServer(k, first_server) ==
    IF (k \div 2) % 2 = 0 THEN first_server ELSE Other(first_server)

\* C5: in a tie-break the first server serves point 1, the other player
\* points 2 and 3, the first server points 4 and 5, and so on.
C5_StandardRotation ==
    \A k \in DOMAIN point_servers :
        point_servers[k] = C5_StandardServer(k, set_server_id)

\* C6: a game in which the returner's effect is 0 and the server's positive
\* is added to the game count of the player serving; one in which the
\* server's effect is 0 and the returner's positive, to the returner's.
C6_GameGoesToFavoured ==
    last_game.server # 0 =>
        /\ (last_game.returner_effect = 0 /\ last_game.server_effect > 0)
              => last_game.credited = last_game.server
        /\ (last_game.server_effect = 0 /\ last_game.returner_effect > 0)
              => last_game.credited = Other(last_game.server)

\* C7: within a set the server of each regular game is the other player
\* than the server of the game before, starting from the server passed in.
C7_ServerAlternates ==
    /\ Len(game_servers) = Len(games) - (IF pc = "set_return" /\ points_played > 0 THEN 1 ELSE 0)
    /\ Len(game_servers) > 0 => game_servers[1] = server_id
    /\ \A i \in 1..(Len(game_servers) - 1) :
          game_servers[i + 1] # game_servers[i]

C7_Witness_TwelveGames ==
    /\ Len(game_servers) = 12
    /\ server_id = 2
    /\ game_servers[12] = 1

C8_Complete ==
    \/ SetWins("player1") >= (best_of \div 2) + 1
    \/ SetWins("player2") >= (best_of \div 2) + 1

\* C8: once a player has the required number of set wins nothing is
\* simulated and nothing changes any more; the result and the statistics
\* scored exist exactly from that moment on.
C8_CompleteIsTerminal ==
    [][ /\ C8_Complete => UNCHANGED vars
        /\ C8_Complete' <=> pc' = "done"
        /\ C8_Complete' <=> result' # << >>
        /\ C8_Complete' <=> fantasy_stats' # << >>
        /\ ~C8_Complete <=> result = << >> ]_vars

C8_Witness_Player2Wins ==
    /\ pc = "done"
    /\ best_of = 3
    /\ Len(sets) = 3
    /\ result[1].winner = "player2"
    /\ fantasy_stats # << >>

\* C9: the Aces and DoubleFaults a player is scored with are the aces and
\* double faults drawn in the regular games that player served.
C9_OwnServeTotals ==
    pc = "done" =>
        \A i \in 1..2 :
            /\ fantasy_stats[i].Aces = served_aces[i]
            /\ fantasy_stats[i].DoubleFaults = served_double_faults[i]

\* C10: the CleanSet flag of a set result is true exactly when the winner of
\* the set lost no game in it, whichever player won.
C10_CleanSetFlag ==
    pc = "set_return" =>
        LET sr == set_result[1]
            loser == IF sr.set_winner = "player1" THEN "player2" ELSE "player1"
        IN sr.CleanSet <=> (count(sr.games, loser) = 0)

\* C11: at completion a player's StraightSets flag is true iff that player
\* won the match and the opponent won no set; never for the loser, never
\* for both players.
C11_StraightSetsFlag ==
    pc = "done" =>
        /\ \A i \in 1..2 :
              fantasy_stats[i].StraightSets <=>
                  (result[1].winner = Label(i) /\ SetWins(Label(Other(i))) = 0)
        /\ \A i \in 1..2 :
              result[1].winner # Label(i) => ~fantasy_stats[i].StraightSets
        /\ ~(fantasy_stats[1].StraightSets /\ fantasy_stats[2].StraightSets)

C11_Witness_ThreeNil ==
    /\ pc = "done"
    /\ best_of = 5
    /\ Len(sets) = 3
    /\ fantasy_stats[2].StraightSets
    /\ ~fantasy_stats[1].StraightSets

\* C12: a player's Breaks total at completion is the number of games the
\* player won while the opponent was serving; games won on the player's own
\* serve are not counted.
C12_BreaksAreReturnGames ==
    pc = "done" =>
        \A i \in 1..2 : fantasy_stats[i].Breaks = games_won_returning[i]

\* C13: construction succeeds only if every rate field is present and lies
\* in [0,1], whatever the numeric type of the value; a failure names the
\* first offending field; no game is simulated from an out-of-range rate.
C13_RatesInRange ==
    LET present(f) == ps_values[f].type # "none"
        in_range(f) == 0 <= ps_values[f].val /\ ps_values[f].val <= 100
    IN /\ ps_status \in {"constructed", "simulated"} =>
            \A f \in RateFields : present(f) /\ in_range(f)
       /\ ps_status = "error" =>
            /\ ps_error.field \in RateFields
            /\ ~(present(ps_error.field) /\ in_range(ps_error.field))

\* the rows of the table for a requested name on a surface, compared as the
\* table compares them (lower case)
C14_RowsFor(name, surface) ==
    {i \in DOMAIN player_data : /\ Lower(player_data[i].Player) = Lower(name)
                                /\ Lower(player_data[i].Surface) = Lower(surface)}

\* C14: when a requested (player, surface) combination has no row,
\* run_match_simulation returns None without simulating and no other row
\* stands in for the missing one.
C14_MissingIsAbsent ==
    rms.status # "pending" =>
        /\ C14_RowsFor(request.player1_name, request.surface) = {}
              => (rms.row1 = 0 /\ rms.status = "not_found")
        /\ C14_RowsFor(request.player2_name, request.surface) = {}
              => (rms.row2 = 0 /\ rms.status = "not_found")

\* C14 as amended: None without simulating when a player has neither a row
\* for the requested surface nor an 'All' row; the row used for a player is
\* that player's first row for the requested surface, else that player's
\* first 'All' row.
C14_MissingOrAllSurface ==
    rms.status # "pending" =>
        LET exact1 == C14_RowsFor(request.player1_name, request.surface)
            exact2 == C14_RowsFor(request.player2_name, request.surface)
            all1 == C14_RowsFor(request.player1_name, "All")
            all2 == C14_RowsFor(request.player2_name, "All")
            rightRow(row, exact, all) ==
                /\ row \in (IF exact # {} THEN exact ELSE all)
                /\ \A j \in (IF exact # {} THEN exact ELSE all) : row <= j
        IN /\ (exact1 \cup all1 = {} \/ exact2 \cup all2 = {}) => rms.status = "not_found"
           /\ rms.status = "simulated" =>
                /\ rightRow(rms.row1, exact1, all1)
                /\ rightRow(rms.row2, exact2, all2)
           /\ rms.row1 # 0 => rightRow(rms.row1, exact1, all1)
           /\ rms.row2 # 0 => rightRow(rms.row2, exact2, all2)

C14_Witness_OtherSurfaceNotUsed ==
    /\ rms.status = "not_found"
    /\ request.player1_name = "ANA"
    /\ request.surface = "hard"
    /\ Len(player_data) = 2
    /\ player_data[1].Player = "Ana" /\ player_data[1].Surface = "Clay"
    /\ player_data[2].Player = "Bo" /\ player_data[2].Surface = "Hard"
    /\ rms.row1 = 0

\* the rows of the roster whose name no other row has
UniqueEntities == {i \in DOMAIN df : \A j \in DOMAIN df : df[j].Player = df[i].Player => j = i}

\* the shock of a team in a trial: the draw of its QB times the correlation
\* factor, 0 for a team without QB
TeamShock(team, t) ==
    LET qbs == {i \in DOMAIN df : df[i].Position = "QB" /\ df[i].Team = team}
    IN IF qbs = {} THEN 0
       ELSE trial_log[t].draws[CHOOSE i \in qbs : TRUE] * config.correlation_factor

UsageShare(position) ==
    IF position \in DOMAIN config.player_usage THEN config.player_usage[position] ELSE 20

\* C15: in every trial every non-driver entity's outcome is
\* max(0, base + team_shock * usage_share + own draw), with usage share 0.2
\* for an unlisted position and team_shock 0 without a driver; no outcome
\* is below 0.
C15_OutcomeFormula ==
    \A t \in DOMAIN simulation_results :
        /\ \A i \in UniqueEntities :
              df[i].Position # "QB" =>
                 LET expected == 100 * df[i].BaseProjection
                                 + TeamShock(df[i].Team, t) * UsageShare(df[i].Position)
                                 + 100 * trial_log[t].draws[i]
                 IN simulation_results[t][df[i].Player] = IF expected > 0 THEN expected ELSE 0
        /\ \A name \in DOMAIN simulation_results[t] : simulation_results[t][name] >= 0

\* a trial in which the QB's draw is 3 and an entity at an unlisted
\* position moves by 6 * 0.2
C15_Witness_DefaultShare ==
    /\ Len(simulation_results) >= 1
    /\ config.correlation_factor = 2
    /\ \E i \in DOMAIN df :
          /\ df[i].Position = "K"
          /\ trial_log[1].draws[1] = 3
          /\ simulation_results[1][df[i].Player] = 100 * df[i].BaseProjection + 6 * 20

\* C16: for unique identifiers and replicate count N the runner produces
\* exactly N trials, each with exactly one outcome for every entity:
\* generate_simulations N rows with a value for every player,
\* run_simulation_slate N outcomes for each team and each player.
C16_TrialMatrixComplete ==
    /\ (pc = "gen" /\ UniqueEntities = DOMAIN df) =>
          /\ \A t \in DOMAIN simulation_results :
                /\ DOMAIN simulation_results[t] = {df[i].Player : i \in DOMAIN df}
                /\ Cardinality(DOMAIN simulation_results[t]) = Len(df)
          /\ gen_status = "returned" => Len(simulation_results) = config.num_simulations
          /\ (\A i \in DOMAIN df : df[i].StdDev >= 0) => gen_status # "raised"
    /\ (pc = "slate" /\ slate_status \in {"returned", "summarized"}) =>
          LET players == game_metadata.team1_players \o game_metadata.team2_players
          IN /\ DOMAIN slate.team_scores = {game_metadata.team1_name, game_metadata.team2_name}
             /\ \A team \in DOMAIN slate.team_scores :
                   Len(slate.team_scores[team]) = num_simulations
             /\ DOMAIN slate.player_points = {players[i].name : i \in DOMAIN players}
             /\ Cardinality(DOMAIN slate.player_points) = Len(players)
             /\ \A name \in DOMAIN slate.player_points :
                   Len(slate.player_points[name]) = num_simulations

C16_Witness_TwoFullRows ==
    /\ gen_status = "returned"
    /\ df = ReferenceRoster
    /\ Len(simulation_results) = 2
    /\ Cardinality(DOMAIN simulation_results[2]) = 7

\* C17 as stated: with correlation factor > 0 and usage share 1.0 the sign
\* of the teammate's deviation from its base equals the sign of the driver's
\* shock in every trial, whatever the teammate's own draw.
C17_AlwaysAligned ==
    \A t \in DOMAIN trial_log : \A i \in DOMAIN df :
        (/\ config.correlation_factor > 0
         /\ df[i].Position # "QB"
         /\ \E q \in DOMAIN df : df[q].Position = "QB" /\ df[q].Team = df[i].Team
         /\ UsageShare(df[i].Position) = 100)
        => sign(trial_log[t].adjusted[i] - 100 * df[i].BaseProjection)
             = sign(TeamShock(df[i].Team, t))

C17_abs(x) == IF x < 0 THEN -x ELSE x

\* C17 as amended: the deviation is the shock plus the own draw, so the
\* signs agree whenever the own draw is zero, has the sign of the shock, or
\* is smaller in magnitude than the shock.
C17_AlignedUnlessOutweighed ==
    \A t \in DOMAIN trial_log : \A i \in DOMAIN df :
        (/\ config.correlation_factor > 0
         /\ df[i].Position # "QB"
         /\ \E q \in DOMAIN df : df[q].Position = "QB" /\ df[q].Team = df[i].Team
         /\ UsageShare(df[i].Position) = 100)
        => LET shock == TeamShock(df[i].Team, t)
               own == trial_log[t].draws[i]
               deviation == trial_log[t].adjusted[i] - 100 * df[i].BaseProjection
           IN /\ deviation = 100 * (shock + own)
              /\ (own = 0 \/ sign(own) = sign(shock) \/ C17_abs(own) < C17_abs(shock))
                    => sign(deviation) = sign(shock)

\* the own draw 3 opposes the shock -4 and does not outweigh it
C17_Witness_SmallerOpposingDraw ==
    /\ config.correlation_factor = 1
    /\ Len(trial_log) >= 1
    /\ \E i \in DOMAIN df :
          /\ df[i].Position = "WR1"
          /\ UsageShare("WR1") = 100
          /\ TeamShock(df[i].Team, 1) = -4
          /\ trial_log[1].draws[i] = 3
          /\ trial_log[1].adjusted[i] - 100 * df[i].BaseProjection = -100

\* C18: with correlation factor 0 a non-driver's outcome does not depend on
\* the driver's draw: two trials with the same own draw give the entity the
\* same outcome.
C18_ZeroFactorIndependent ==
    config.correlation_factor = 0 =>
        \A t \in DOMAIN trial_log : \A u \in DOMAIN trial_log : \A i \in UniqueEntities :
            (df[i].Position # "QB" /\ trial_log[t].draws[i] = trial_log[u].draws[i])
            => simulation_results[t][df[i].Player] = simulation_results[u][df[i].Player]

C18_Witness_DriverDrawsDiffer ==
    /\ config.correlation_factor = 0
    /\ Len(trial_log) = 2
    /\ Len(df) = 3
    /\ df[1].Position = "QB" /\ df[2].Position = "WR1" /\ df[2].Team = df[1].Team
    /\ trial_log[1].draws[1] = 3 /\ trial_log[2].draws[1] = -4
    /\ trial_log[1].draws[2] = trial_log[2].draws[2]
    /\ simulation_results[1][df[2].Player] = simulation_results[2][df[2].Player]

C19_Tracked == {i \in DOMAIN df : df[i].Position \in {"WR1", "WR2", "WR3", "TE", "RB"}}

\* C19: on a roster with a tracked entity every trial increments exactly one
\* bucket, so the counts sum to the number of trials, and the bucket is the
\* one numbered by the count of tracked entities whose deviation has the
\* sign of their own team's driver shock.
C19_BucketIsAlignedCount ==
    C19_Tracked # {} =>
        /\ alignment_counts["zero_of_five"] + alignment_counts["one_of_five"]
             + alignment_counts["two_of_five"] + alignment_counts["three_of_five"]
             + alignment_counts["four_of_five"] + alignment_counts["all_five"]
           = Len(trial_log)
        /\ \A t \in DOMAIN trial_log :
              LET aligned == {i \in C19_Tracked :
                                sign(trial_log[t].adjusted[i] - 100 * df[i].BaseProjection)
                                  = sign(TeamShock(df[i].Team, t))}
              IN /\ Cardinality(aligned) <= 5
                 /\ trial_log[t].incremented = Buckets[Cardinality(aligned) + 1]

C21_ZeroTrialsEmptyResult ==
    LET players == game_metadata.team1_players \o game_metadata.team2_players
    IN (/\ pc = "slate"
        /\ num_simulations = 0
        /\ \A i \in DOMAIN players : players[i].std_dev >= 0) =>
          /\ slate_status # "raised"
          /\ slate_status \in {"returned", "summarized"} =>
                /\ \A team \in {game_metadata.team1_name, game_metadata.team2_name} :
                      slate.team_scores[team] = << >>
                /\ \A i \in DOMAIN players : slate.player_points[players[i].name] = << >>
          /\ slate_status = "summarized" =>
                /\ summary.total_games = 0
                /\ DOMAIN summary.player_percentiles = {}

C21_Witness_PlayersWithoutTrials ==
    /\ slate_status = "summarized"
    /\ num_simulations = 0
    /\ Len(game_metadata.team1_players) = 1
    /\ DOMAIN summary.player_points = {"QB_Team_A", "WR1_Team_B"}
    /\ summary.total_games = 0
    /\ DOMAIN summary.player_percentiles = {}

\* C22: simulate_scores rejects a variability <= 0: scores are produced and
\* stored for the team only if variability > 0.
C22_VariabilityPositive ==
    pc = "team" =>
        /\ team_status = "stored" => variability > 0
        /\ variability <= 0 => simulated_scores = << >>

\* C23: a negative dispersion is rejected: neither generate_simulations nor
\* run_simulation_slate returns a result, or any outcome, for a roster with
\* an entity whose dispersion is negative.
C23_NegativeDispersionRejected ==
    /\ (pc = "gen" /\ \E i \in DOMAIN df : df[i].StdDev < 0) =>
          /\ gen_status # "returned"
          /\ simulation_results = << >>
    /\ (pc = "slate" /\ \E i \in DOMAIN (game_metadata.team1_players \o game_metadata.team2_players) :
                           (game_metadata.team1_players \o game_metadata.team2_players)[i].std_dev < 0) =>
          /\ slate_status \notin {"returned", "summarized"}
          /\ slate = NoSlateResult

\* C24: an entity with zero or one trial value has no entry in
\* player_percentiles; an entity with two or more has a percentile set with
\* exactly the keys 25th, 50th, 75th, 85th, 95th, 99th.
C24_FewValuesNoPercentiles ==
    (pc = "slate" /\ slate_status = "summarized") =>
        \A name \in DOMAIN summary.player_points :
            /\ Len(summary.player_points[name]) <= 1 =>
                  name \notin DOMAIN summary.player_percentiles
            /\ Len(summary.player_points[name]) >= 2 =>
                  /\ name \in DOMAIN summary.player_percentiles
                  /\ DOMAIN summary.player_percentiles[name]
                       = {"25th", "50th", "75th", "85th", "95th", "99th"}

\* the k-th smallest of the values
C25_OrderStatistic(points, k) ==
    CHOOSE v \in {points[j] : j \in DOMAIN points} :
        /\ Cardinality({j \in DOMAIN points : points[j] < v}) < k
        /\ Cardinality({j \in DOMAIN points : points[j] <= v}) >= k

\* 100 times the interpolation between the order statistics at the floor
\* and the ceiling of q/100 * (n - 1)
C25_Interpolation(points, q) ==
    LET position == q * (Len(points) - 1)
        floor == position \div 100
        ceiling == (position + 99) \div 100
    IN 100 * C25_OrderStatistic(points, floor + 1)
       + (position - 100 * floor)
         * (C25_OrderStatistic(points, ceiling + 1) - C25_OrderStatistic(points, floor + 1))

\* C25: every percentile set is ordered 25th <= 50th <= 75th <= 85th <=
\* 95th <= 99th, and each percentile is the linear interpolation between the
\* order statistics around p/100 * (n - 1).
C25_PercentilesOrdered ==
    (pc = "slate" /\ slate_status = "summarized") =>
        \A name \in DOMAIN summary.player_percentiles :
            LET set == summary.player_percentiles[name]
                points == summary.player_points[name]
            IN /\ set["25th"] <= set["50th"] /\ set["50th"] <= set["75th"]
               /\ set["75th"] <= set["85th"] /\ set["85th"] <= set["95th"]
               /\ set["95th"] <= set["99th"]
               /\ set["25th"] = C25_Interpolation(points, 25)
               /\ set["50th"] = C25_Interpolation(points, 50)
               /\ set["75th"] = C25_Interpolation(points, 75)
               /\ set["85th"] = C25_Interpolation(points, 85)
               /\ set["95th"] = C25_Interpolation(points, 95)
               /\ set["99th"] = C25_Interpolation(points, 99)

\* two trials in which the player's larger value comes first
C25_Witness_DescendingValues ==
    /\ slate_status = "summarized"
    /\ num_simulations = 2
    /\ "QB_Team_A" \in DOMAIN summary.player_percentiles
    /\ summary.player_points["QB_Team_A"][1] > summary.player_points["QB_Team_A"][2]
    /\ summary.player_percentiles["QB_Team_A"]["25th"]
         < summary.player_percentiles["QB_Team_A"]["99th"]

\* C27: at completion TenPlusAces is true iff Aces >= 10 and
\* FifteenPlusAces is true iff Aces >= 15, so FifteenPlusAces implies
\* TenPlusAces, however the aces are spread over the sets.
C27_AceFlagsMatchTotal ==
    pc = "done" =>
        \A i \in 1..2 :
            /\ fantasy_stats[i].TenPlusAces <=> fantasy_stats[i].Aces >= 10
            /\ fantasy_stats[i].FifteenPlusAces <=> fantasy_stats[i].Aces >= 15
            /\ fantasy_stats[i].FifteenPlusAces => fantasy_stats[i].TenPlusAces

\* C28: after every set and at completion NoDoubleFault is true iff the
\* player's accumulated DoubleFaults total is 0, and once false it stays
\* false for the rest of the match.
C28_NoDoubleFaultFlag ==
    /\ [](/\ player1_fantasy_counts.NoDoubleFault <=> player1_fantasy_counts.DoubleFaults = 0
          /\ player2_fantasy_counts.NoDoubleFault <=> player2_fantasy_counts.DoubleFaults = 0
          /\ pc = "done" =>
                \A i \in 1..2 :
                    fantasy_stats[i].NoDoubleFault <=> fantasy_stats[i].DoubleFaults = 0)
    /\ [][/\ ~player1_fantasy_counts.NoDoubleFault => ~player1_fantasy_counts'.NoDoubleFault
          /\ ~player2_fantasy_counts.NoDoubleFault => ~player2_fantasy_counts'.NoDoubleFault]_vars

\* player 1 lost the flag in the first set and won the last set without a
\* double fault; player 2 won a set and kept the flag
C28_Witness_FlagLostEarly ==
    /\ pc = "done"
    /\ Len(sets) = 3
    /\ sets[1].winner = "player1"
    /\ sets[3].winner = "player1"
    /\ set_result[1].double_faults = 0
    /\ ~fantasy_stats[1].NoDoubleFault
    /\ fantasy_stats[1].DoubleFaults = 2
    /\ fantasy_stats[2].NoDoubleFault
    /\ fantasy_stats[2].SetsWon = 1

RECURSIVE C29_LogEntries(_)
C29_LogEntries(k) == IF k = 0 THEN 0 ELSE Len(sets[k].games) + C29_LogEntries(k - 1)

\* C29: after every set the two players' game and set counters mirror each
\* other, each player's games won plus lost is the number of entries in
\* the game logs of the sets played, sets won plus lost is the number of
\* sets played, and exactly one player is scored with match_won = true.
C29_CountersMirror ==
    LET c1 == player1_fantasy_counts
        c2 == player2_fantasy_counts
    IN /\ c1.GamesWon = c2.GamesLost /\ c1.GamesLost = c2.GamesWon
       /\ c1.SetsWon = c2.SetsLost /\ c1.SetsLost = c2.SetsWon
       /\ c1.GamesWon + c1.GamesLost = C29_LogEntries(Len(sets))
       /\ c2.GamesWon + c2.GamesLost = C29_LogEntries(Len(sets))
       /\ c1.SetsWon + c1.SetsLost = Len(sets)
       /\ c2.SetsWon + c2.SetsLost = Len(sets)
       /\ pc = "done" =>
             \E won1 \in BOOLEAN : \E won2 \in BOOLEAN :
                /\ won1 # won2
                /\ won1 <=> result[1].winner = "player1"
                /\ won2 <=> result[1].winner = "player2"
                /\ result[1].player1_fantasy_points
                     = calculate_fantasy_points(fantasy_stats[1], won1, best_of)
                /\ result[1].player2_fantasy_points
                     = calculate_fantasy_points(fantasy_stats[2], won2, best_of)

\* a completed match of three sets, one of them decided by a tie-break
C29_Witness_ThreeSetsWithTieBreak ==
    /\ pc = "done"
    /\ Len(sets) = 3
    /\ \E k \in 1..3 : Len(sets[k].games) = 13
    /\ player1_fantasy_counts.GamesWon + player1_fantasy_counts.GamesLost
         = C29_LogEntries(3)

\* C30: a set has at most 12 regular games and one tie-break (at most 13
\* log entries), a match at most best_of sets, and if no tie-break goes on
\* for ever simulate_match eventually returns.
C30_Terminates ==
    /\ [](/\ Len(game_servers) <= 12
          /\ Len(games) <= 13
          /\ Len(games) - Len(game_servers) \in {0, 1}
          /\ \A k \in DOMAIN sets : Len(sets[k].games) <= 13
          /\ Len(sets) <= best_of
          /\ set_num <= best_of)
    /\ ([]<>(pc # "tiebreak")) => <>(pc = "done")

\* a match of five sets, the last decided by a tie-break
C30_Witness_FiveSetsTieBreak ==
    /\ pc = "done"
    /\ best_of = 5
    /\ Len(sets) = 5
    /\ Len(sets[5].games) = 13

\* the state a call of simulate_match starts from
C26_Fresh ==
    /\ pc = "game"
    /\ player1_sets = 0 /\ player2_sets = 0
    /\ set_num = 1
    /\ server_id = 1 /\ set_server_id = 1
    /\ sets = << >>
    /\ games = << >>
    /\ \A c \in {player1_fantasy_counts, player2_fantasy_counts} :
          /\ c.Aces = 0 /\ c.DoubleFaults = 0 /\ c.GamesWon = 0 /\ c.GamesLost = 0
          /\ c.SetsWon = 0 /\ c.SetsLost = 0 /\ c.Breaks = 0
          /\ ~c.CleanSet /\ ~c.StraightSets /\ ~c.TenPlusAces /\ ~c.FifteenPlusAces
          /\ c.NoDoubleFault

\* C26: every call of simulate_match starts from fresh state and leaves the
\* two PlayerStats unchanged; what a match reports is made of its own sets
\* only, whatever the matches before it.
C26_StateNotReused ==
    /\ C26_Fresh
    /\ [][match_calls' # match_calls => C26_Fresh']_vars
    /\ [][player1_stats' = player1_stats /\ player2_stats' = player2_stats]_vars
    /\ [](pc = "done" =>
            /\ \A k \in DOMAIN sets : sets[k].set_number = k
            /\ \A i \in 1..2 :
                  /\ fantasy_stats[i].SetsWon
                       = Cardinality({k \in DOMAIN sets : sets[k].winner = Label(i)})
                  /\ fantasy_stats[i].SetsWon + fantasy_stats[i].SetsLost = Len(sets)
                  /\ fantasy_stats[i].GamesWon + fantasy_stats[i].GamesLost
                       = C29_LogEntries(Len(sets))
                  /\ fantasy_stats[i].CleanSet =>
                       \E k \in DOMAIN sets : sets[k].CleanSet /\ sets[k].winner = Label(i)
                  /\ fantasy_stats[i].StraightSets => fantasy_stats[i].SetsLost = 0
                  /\ fantasy_stats[i].TenPlusAces => fantasy_stats[i].Aces >= 10
                  /\ fantasy_stats[i].FifteenPlusAces => fantasy_stats[i].Aces >= 15
                  /\ fantasy_stats[i].Aces = 0 => ~fantasy_stats[i].TenPlusAces
                  /\ ~fantasy_stats[i].NoDoubleFault => fantasy_stats[i].DoubleFaults > 0)

\* a second match on the same objects, won by player 2 in straight sets
C26_Witness_SecondMatchDiffers ==
    /\ pc = "done"
    /\ match_calls = 2
    /\ result[1].winner = "player2"
    /\ Len(sets) = 2
    /\ fantasy_stats[1].SetsWon = 0
    /\ ~fantasy_stats[1].StraightSets
    /\ fantasy_stats[2].StraightSets

====
